---- MODULE Spec2Model ----
(***************************************************************************)
(* State-machine model of RealLSPClient (src/gg.js): the WebSocket         *)
(* connection lifecycle, the reconnect backoff, the request/response       *)
(* correlation table with its 30 s timers, and the initialize handshake.   *)
(*                                                                         *)
(* One action is one task of the JavaScript event loop (a socket event, a  *)
(* timer, a call from the editor or from an external caller) together with *)
(* the microtasks it triggers (the continuation after an await).           *)
(***************************************************************************)
EXTENDS Integers, Sequences, FiniteSets, TLC

(* ---------------------------- bounds ----------------------------------- *)
\* Spec: every operation, short runs
MaxSockets == 2            \* sockets ever created by connect
MaxMsgId == 2              \* request ids ever allocated
MaxStimuli == 2            \* calls and frames from outside (caller, editor, server)
MaxConnects == 2           \* of these, connect calls
MaxVersion == 2            \* document version a change listener counts up to

\* ReconnectSpec: every operation, one caller, a server that answers only the
\* requests it received on the same connection and closes with a handshake
ReconnectSockets == 2
ReconnectMsgId == 3
ReconnectStimuli == 3
ReconnectConnects == 1     \* a caller that connects once
ReconnectVersion == 2

\* BackoffSpec: a server that never answers and an idle editor, with enough
\* sockets to exhaust the reconnect attempts
BackoffSockets == 6
BackoffMsgId == 1
BackoffConnects == 1

\* RivalSpec: as BackoffSpec, with a caller that calls connect again
RivalSockets == 6
RivalMsgId == 1
RivalConnects == 2

\* DiagnosticsSpec: one connection receiving publishDiagnostics notifications
MaxCoord == 1              \* largest line / character of a diagnostic's range
MaxSeverity == 4           \* severities 0..MaxSeverity (1..3 are named)
DiagnosticsStimuli == 2

\* DecodeSpec: one connection receiving frames, decodable or not
DecodeMsgId == 2
DecodeStimuli == 3

(* ------------------------ program constants ---------------------------- *)
maxReconnectAttempts == 5
BaseDelay == 1000
DelayCeiling == 30000

NoSocket == 0              \* this.ws = null
NoId == 0                  \* a frame without (or with a falsy) id

Max(a, b) == IF a > b THEN a ELSE b
Sockets == 1..Max(Max(MaxSockets, ReconnectSockets), Max(BackoffSockets, RivalSockets))
Ids == 1..Max(Max(Max(MaxMsgId, ReconnectMsgId), Max(BackoffMsgId, RivalMsgId)), DecodeMsgId)

VARIABLES
    messageId,           \* this.messageId
    pendingRequests,     \* keys of this.pendingRequests
    isConnected,         \* this.isConnected
    serverCapabilities,  \* this.serverCapabilities
    ws,                  \* this.ws: the socket the client writes to
    reconnectAttempts,   \* this.reconnectAttempts
    lspReady,            \* global flag set by initialize()
    editorLoaded,        \* editor && editorLoaded
    listeners,           \* version counters of the registered change listeners
    readyState,          \* readyState of every socket created (NONE: not yet;
                         \* FAILED: CLOSED, the error event fired, close is next)
    wire,                \* frames written to each socket, in order
    reconnectTimer,      \* delay of the reconnect timer each socket's close set
    requestTimer,        \* ids whose 30 s timer is still to fire
    promise,             \* state of the promise sendMessage returned for an id
    awaiting,            \* which async method awaits the promise of an id
    settles,             \* how often resolve/reject was invoked for an id
    markers,             \* the markers last handed to monaco.editor.setModelMarkers
    published,           \* history: the params.diagnostics the markers were made from
    issued,              \* history: ids allocated, in order
    delays,              \* history: reconnect delays scheduled since the last open
    stimuli,             \* history: calls and frames from outside so far
    connects,            \* history: connect calls from outside so far
    gaveUp,              \* history: a close declined to reconnect, no connect call since
    last                 \* history: the task that ran last

vars == <<messageId, pendingRequests, isConnected, serverCapabilities, ws,
          reconnectAttempts, lspReady, editorLoaded, listeners, readyState,
          wire, reconnectTimer, requestTimer, promise, awaiting, settles,
          markers, published, issued, delays, stimuli, connects, gaveUp, last>>

(* ------------------------- values -------------------------------------- *)
\* serverCapabilities: null/undefined, or an object with the two provider flags
NoCaps == [defined |-> FALSE, completionProvider |-> FALSE, hoverProvider |-> FALSE]
CompletionCaps == [defined |-> TRUE, completionProvider |-> TRUE, hoverProvider |-> FALSE]
FullCaps == [defined |-> TRUE, completionProvider |-> TRUE, hoverProvider |-> TRUE]

\* the result member of a response: null, or an object with .capabilities
NullResult == [isNull |-> TRUE, capabilities |-> NoCaps]
Results == {NullResult} \cup
           {[isNull |-> FALSE, capabilities |-> c] : c \in {NoCaps, CompletionCaps, FullCaps}}

\* inbound frames after JSON.parse: a response with a result, a response with
\* an error, or a frame with a method (notification / server request)
InboundFrames ==
    {[id |-> i, error |-> FALSE, method |-> FALSE, result |-> r] :
        i \in {NoId} \cup Ids, r \in Results}
    \cup {[id |-> i, error |-> TRUE, method |-> FALSE, result |-> NullResult] :
        i \in {NoId} \cup Ids}
    \cup {[id |-> i, error |-> FALSE, method |-> TRUE, result |-> NullResult] :
        i \in {NoId} \cup Ids}

\* a diagnostic of a publishDiagnostics notification (range and severity)
Diagnostic(sl, sc, el, ec, sev) ==
    [start |-> [line |-> sl, character |-> sc],
     end |-> [line |-> el, character |-> ec],
     severity |-> sev]

Diagnostics ==
    {Diagnostic(sl, sc, el, ec, sev) :
        sl \in 0..MaxCoord, sc \in 0..MaxCoord, el \in 0..MaxCoord, ec \in 0..MaxCoord,
        sev \in 0..MaxSeverity}

\* range (2,4)-(2,9), severity 1
SampleDiagnostic == Diagnostic(2, 4, 2, 9, 1)

\* params.diagnostics: empty, one diagnostic, or one followed by the sample
DiagnosticLists ==
    {<<>>, <<SampleDiagnostic>>}
    \cup {<<d>> : d \in Diagnostics}
    \cup {<<d, SampleDiagnostic>> : d \in Diagnostics}

Min(a, b) == IF a < b THEN a ELSE b

RECURSIVE Pow2(_)
Pow2(n) == IF n = 0 THEN 1 ELSE 2 * Pow2(n - 1)


(* ------------------- the client's state as one value ------------------- *)
\* The methods below are functions on this record; an action applies them to
\* the current state and commits the result.  sends / rejected count the
\* sendMessage calls of the running task and those rejected as not ready,
\* docRejected the openDocument / changeDocument calls whose promise rejected.
Cur ==
    [messageId |-> messageId, pendingRequests |-> pendingRequests,
     isConnected |-> isConnected, serverCapabilities |-> serverCapabilities,
     ws |-> ws, reconnectAttempts |-> reconnectAttempts, lspReady |-> lspReady,
     listeners |-> listeners, readyState |-> readyState, wire |-> wire,
     reconnectTimer |-> reconnectTimer, requestTimer |-> requestTimer,
     promise |-> promise, awaiting |-> awaiting, settles |-> settles,
     markers |-> markers, published |-> published, issued |-> issued, delays |-> delays, gaveUp |-> gaveUp,
     ret |-> "none", sends |-> 0, rejected |-> 0, docRejected |-> 0]

Commit(st) ==
    /\ messageId' = st.messageId
    /\ pendingRequests' = st.pendingRequests
    /\ isConnected' = st.isConnected
    /\ serverCapabilities' = st.serverCapabilities
    /\ ws' = st.ws
    /\ reconnectAttempts' = st.reconnectAttempts
    /\ lspReady' = st.lspReady
    /\ listeners' = st.listeners
    /\ readyState' = st.readyState
    /\ wire' = st.wire
    /\ reconnectTimer' = st.reconnectTimer
    /\ requestTimer' = st.requestTimer
    /\ promise' = st.promise
    /\ awaiting' = st.awaiting
    /\ settles' = st.settles
    /\ markers' = st.markers
    /\ published' = st.published
    /\ issued' = st.issued
    /\ delays' = st.delays
    /\ gaveUp' = st.gaveUp

Event(op, id, method, st) ==
    [op |-> op, id |-> id, method |-> method, ret |-> st.ret,
     sends |-> st.sends, rejected |-> st.rejected, docRejected |-> st.docRejected]

Frame(method, id, version) == [method |-> method, id |-> id, version |-> version]

(* ----------------------------- sendMessage ----------------------------- *)
\* this.ws && this.ws.readyState === WebSocket.OPEN
TransportOpen(st) == st.ws # NoSocket /\ st.readyState[st.ws] = "OPEN"

\* mutant: the entry and its timer are registered before the readyState check
sendMessageRegistersFirst(st, message) ==
    LET reg == IF message.id # NoId
               THEN [st EXCEPT !.pendingRequests = @ \cup {message.id},
                               !.requestTimer = @ \cup {message.id}]
               ELSE st
    IN  IF ~TransportOpen(st)
        THEN [reg EXCEPT !.ret = "rejected",
                         !.sends = @ + 1,
                         !.rejected = @ + 1,
                         !.promise = IF message.id # NoId
                                     THEN [@ EXCEPT ![message.id] = "notready"]
                                     ELSE @]
        ELSE LET sent == [reg EXCEPT !.wire[st.ws] = Append(@, message),
                                     !.sends = @ + 1]
             IN  IF message.id # NoId
                 THEN [sent EXCEPT !.promise[message.id] = "pending", !.ret = "pending"]
                 ELSE [sent EXCEPT !.ret = "resolved"]

sendMessage(st, message) ==
    IF ~TransportOpen(st)
    THEN [st EXCEPT !.ret = "rejected",
                    !.sends = @ + 1,
                    !.rejected = @ + 1,
                    !.promise = IF message.id # NoId
                                THEN [@ EXCEPT ![message.id] = "notready"]
                                ELSE @]
    ELSE LET sent == [st EXCEPT !.wire[st.ws] = Append(@, message),
                                !.sends = @ + 1]
         IN  IF message.id # NoId
             THEN [sent EXCEPT !.pendingRequests = @ \cup {message.id},
                               !.requestTimer = @ \cup {message.id},
                               !.promise[message.id] = "pending",
                               !.ret = "pending"]
             ELSE [sent EXCEPT !.ret = "resolved"]

\* id: ++this.messageId
NextId(st) == [st EXCEPT !.messageId = @ + 1, !.issued = Append(@, st.messageId + 1)]


(* ------------------------ documents and features ----------------------- *)
\* await this.sendMessage(...) outside any try: a rejection rejects the
\* promise of the async method
Awaited(sent) == IF sent.ret = "rejected" THEN [sent EXCEPT !.docRejected = @ + 1] ELSE sent

openDocument(st, version) ==
    IF ~st.isConnected THEN st
    ELSE Awaited(sendMessage(st, Frame("textDocument/didOpen", NoId, version)))

changeDocument(st, version) ==
    IF ~st.isConnected THEN st
    ELSE Awaited(sendMessage(st, Frame("textDocument/didChange", NoId, version)))

\* up to the await; the promise is settled by handleMessage or by the timer
getCompletions(st) ==
    IF ~st.isConnected \/ ~st.serverCapabilities.completionProvider
    THEN [st EXCEPT !.ret = "empty"]
    ELSE LET id == st.messageId + 1
             sent == sendMessage(NextId(st), Frame("textDocument/completion", id, 0))
         IN  IF sent.ret = "rejected"
             THEN [sent EXCEPT !.ret = "caught"]
             ELSE [sent EXCEPT !.awaiting[id] = "completion", !.ret = "awaiting"]

getHover(st) ==
    IF ~st.isConnected \/ ~st.serverCapabilities.hoverProvider
    THEN [st EXCEPT !.ret = "empty"]
    ELSE LET id == st.messageId + 1
             sent == sendMessage(NextId(st), Frame("textDocument/hover", id, 0))
         IN  IF sent.ret = "rejected"
             THEN [sent EXCEPT !.ret = "caught"]
             ELSE [sent EXCEPT !.awaiting[id] = "hover", !.ret = "awaiting"]

\* openDocument(uri, 'lua', 1, ...), then a new change listener with its own
\* version counter starting at 1 (the providers call getCompletions/getHover)
setupEditorIntegration(st) ==
    IF ~editorLoaded THEN st
    ELSE [openDocument(st, 1) EXCEPT !.listeners = Append(@, 1)]

\* model.onDidChangeContent: every registered listener increments its version
\* and calls changeDocument, in registration order
RECURSIVE fireListeners(_, _)
fireListeners(st, k) ==
    IF k > Len(st.listeners) THEN st
    ELSE LET v == st.listeners[k] + 1
         IN  fireListeners(changeDocument([st EXCEPT !.listeners[k] = v], v), k + 1)

(* ------------------------------ handshake ------------------------------ *)
\* initialize() up to the first await
initialize(st) ==
    LET id == st.messageId + 1
        sent == sendMessage(NextId(st), Frame("initialize", id, 0))
    IN  IF sent.ret = "rejected"
        THEN [sent EXCEPT !.ret = "caught"]
        ELSE [sent EXCEPT !.awaiting[id] = "initialize", !.ret = "awaiting"]

\* initialize() after its request was fulfilled with result
initializeResume(st, result) ==
    IF result.isNull THEN [st EXCEPT !.ret = "caught"]  \* result.capabilities throws
    ELSE LET noted == sendMessage([st EXCEPT !.serverCapabilities = result.capabilities],
                                  Frame("initialized", NoId, 0))
         IN  IF noted.ret = "rejected"
             THEN [noted EXCEPT !.ret = "caught"]
             ELSE [setupEditorIntegration([noted EXCEPT !.lspReady = TRUE])
                     EXCEPT !.ret = "ready"]

\* mutant: a failed initialize request is sent again
resumeRetriesHandshake(st, id, result) ==
    IF st.awaiting[id] = "initialize" /\ st.promise[id] = "resolved"
    THEN initializeResume(st, result)
    ELSE IF st.awaiting[id] = "initialize"
         THEN initialize(st)
         ELSE st

\* the continuation of the async method awaiting the promise of id
resume(st, id, result) ==
    IF st.awaiting[id] = "initialize" /\ st.promise[id] = "resolved"
    THEN initializeResume(st, result)
    ELSE st

(* ---------------------------- handleMessage ---------------------------- *)
\* mutant: the entry is not deleted when its response arrives
handleMessageKeepsEntry(st, message) ==
    IF message.id # NoId /\ message.id \in st.pendingRequests
    THEN [st EXCEPT !.settles[message.id] = @ + 1,
                    !.promise[message.id] = IF message.error THEN "error" ELSE "resolved",
                    !.ret = "settled"]
    ELSE IF message.method
         THEN [st EXCEPT !.ret = "notification"]
         ELSE [st EXCEPT !.ret = "ignored"]

\* mutant: a response with an unknown id settles the oldest pending request
handleMessageByArrival(st, message) ==
    LET known == message.id # NoId /\ message.id \in st.pendingRequests
        oldest == CHOOSE i \in st.pendingRequests : \A j \in st.pendingRequests : i <= j
        id == IF known THEN message.id ELSE oldest
    IN  IF known \/ (~message.method /\ st.pendingRequests # {})
        THEN [st EXCEPT !.pendingRequests = @ \ {id},
                        !.settles[id] = @ + 1,
                        !.promise[id] = IF message.error THEN "error" ELSE "resolved",
                        !.ret = IF known THEN "settled" ELSE "ignored"]
        ELSE IF message.method
             THEN [st EXCEPT !.ret = "notification"]
             ELSE [st EXCEPT !.ret = "ignored"]

handleMessage(st, message) ==
    IF message.id # NoId /\ message.id \in st.pendingRequests
    THEN [st EXCEPT !.pendingRequests = @ \ {message.id},
                    !.settles[message.id] = @ + 1,
                    !.promise[message.id] = IF message.error THEN "error" ELSE "resolved",
                    !.ret = "settled"]
    ELSE IF message.method
         THEN [st EXCEPT !.ret = "notification"]
         ELSE [st EXCEPT !.ret = "ignored"]

(* --------------------------- handleDiagnostics ------------------------- *)
\* monaco.MarkerSeverity of diag.severity
MarkerSeverity(severity) ==
    IF severity = 1 THEN "Error"
    ELSE IF severity = 2 THEN "Warning"
    ELSE IF severity = 3 THEN "Info"
    ELSE "Hint"

\* mutant: the end column is taken over unshifted
MarkerEndUnshifted(diag) ==
    [startLineNumber |-> diag.start.line + 1,
     endLineNumber |-> diag.end.line + 1,
     startColumn |-> diag.start.character + 1,
     endColumn |-> diag.end.character,
     severity |-> MarkerSeverity(diag.severity)]

\* one element of params.diagnostics.map(diag => ({...}))
Marker(diag) ==
    [startLineNumber |-> diag.start.line + 1,
     endLineNumber |-> diag.end.line + 1,
     startColumn |-> diag.start.character + 1,
     endColumn |-> diag.end.character + 1,
     severity |-> MarkerSeverity(diag.severity)]

\* enabled: editor && errorDetectionEnabled at the time of the call
handleDiagnostics(st, diagnostics, enabled) ==
    IF ~enabled THEN st
    ELSE [st EXCEPT !.markers = [k \in 1..Len(diagnostics) |-> Marker(diagnostics[k])],
                    !.published = diagnostics,
                    !.ret = "markers"]

\* mutant: the timer rejects without deleting the entry
requestTimeoutKeepsEntry(st, id) ==
    LET fired == [st EXCEPT !.requestTimer = @ \ {id}]
    IN  IF id \in st.pendingRequests
        THEN [fired EXCEPT !.settles[id] = @ + 1,
                           !.promise[id] = "timeout",
                           !.ret = "timeout"]
        ELSE [fired EXCEPT !.ret = "noop"]

\* the 30 s timer set by sendMessage
requestTimeout(st, id) ==
    LET fired == [st EXCEPT !.requestTimer = @ \ {id}]
    IN  IF id \in st.pendingRequests
        THEN [fired EXCEPT !.pendingRequests = @ \ {id},
                           !.settles[id] = @ + 1,
                           !.promise[id] = "timeout",
                           !.ret = "timeout"]
        ELSE [fired EXCEPT !.ret = "noop"]


(* ------------------------ connect and its handlers --------------------- *)
Created(st) == {s \in Sockets : st.readyState[s] # "NONE"}

\* updateConnectionStatus(connected, message): the flag, then DOM updates
updateConnectionStatus(st, connected) == [st EXCEPT !.isConnected = connected]

\* new WebSocket(url) throws on a url it cannot parse: the catch branch
\* mutant: every connect starts the attempt count afresh
connectResetsAttempts(st, url) ==
    IF url = "bad"
    THEN [updateConnectionStatus(st, FALSE) EXCEPT !.ret = "false"]
    ELSE LET s == Cardinality(Created(st)) + 1
         IN  [st EXCEPT !.ws = s, !.readyState[s] = "CONNECTING", !.reconnectAttempts = 0,
                        !.ret = "true"]

connect(st, url) ==
    IF url = "bad"
    THEN [updateConnectionStatus(st, FALSE) EXCEPT !.ret = "false"]
    ELSE LET s == Cardinality(Created(st)) + 1
         IN  [st EXCEPT !.ws = s, !.readyState[s] = "CONNECTING", !.ret = "true"]

\* mutant: the id counter restarts on every open
onopenResetsIds(st) ==
    initialize([updateConnectionStatus([st EXCEPT !.isConnected = TRUE,
                                                  !.reconnectAttempts = 0,
                                                  !.messageId = 0,
                                                  !.delays = <<>>], TRUE)
                  EXCEPT !.ret = "none"])

onopen(st) ==
    initialize([updateConnectionStatus([st EXCEPT !.isConnected = TRUE,
                                                  !.reconnectAttempts = 0,
                                                  !.delays = <<>>], TRUE)
                  EXCEPT !.ret = "none"])

\* mutant: the delay is computed from the counter before its increment
ReconnectDelayBeforeIncrement(attempts) ==
    Min(BaseDelay * Pow2(attempts - 1), DelayCeiling)

\* const delay = Math.min(1000 * Math.pow(2, this.reconnectAttempts), 30000)
ReconnectDelay(attempts) == Min(BaseDelay * Pow2(attempts), DelayCeiling)

\* mutant: the close handler rejects every request still pending
oncloseRejectsPending(st, s) ==
    LET down == updateConnectionStatus(
                    [st EXCEPT !.isConnected = FALSE,
                               !.promise = [i \in Ids |-> IF i \in st.pendingRequests
                                                          THEN "closed" ELSE @[i]],
                               !.settles = [i \in Ids |-> IF i \in st.pendingRequests
                                                          THEN @[i] + 1 ELSE @[i]],
                               !.pendingRequests = {}], FALSE)
    IN  IF down.reconnectAttempts < maxReconnectAttempts
        THEN LET n == down.reconnectAttempts + 1
             IN  [down EXCEPT !.reconnectAttempts = n,
                              !.reconnectTimer[s] = ReconnectDelay(n),
                              !.delays = Append(@, ReconnectDelay(n)),
                              !.ret = "scheduled"]
        ELSE [down EXCEPT !.gaveUp = TRUE, !.ret = "gaveup"]

onclose(st, s) ==
    LET down == updateConnectionStatus([st EXCEPT !.isConnected = FALSE], FALSE)
    IN  IF down.reconnectAttempts < maxReconnectAttempts
        THEN LET n == down.reconnectAttempts + 1
             IN  [down EXCEPT !.reconnectAttempts = n,
                              !.reconnectTimer[s] = ReconnectDelay(n),
                              !.delays = Append(@, ReconnectDelay(n)),
                              !.ret = "scheduled"]
        ELSE [down EXCEPT !.gaveUp = TRUE, !.ret = "gaveup"]

onerror(st) == updateConnectionStatus(st, FALSE)

(* ------------------------------- actions ------------------------------- *)
\* A failed connection fires its error event and its close event in one task:
\* no other task runs between the two handlers.
BetweenTasks == \A s \in Sockets : readyState[s] # "FAILED"

Init ==
    /\ messageId = 0
    /\ pendingRequests = {}
    /\ isConnected = FALSE
    /\ serverCapabilities = NoCaps
    /\ ws = NoSocket
    /\ reconnectAttempts = 0
    /\ lspReady = FALSE
    /\ editorLoaded \in BOOLEAN
    /\ listeners = <<>>
    /\ readyState = [s \in Sockets |-> "NONE"]
    /\ wire = [s \in Sockets |-> <<>>]
    /\ reconnectTimer = [s \in Sockets |-> 0]
    /\ requestTimer = {}
    /\ promise = [i \in Ids |-> "none"]
    /\ awaiting = [i \in Ids |-> "none"]
    /\ settles = [i \in Ids |-> 0]
    /\ markers = <<>>
    /\ published = <<>>
    /\ issued = <<>>
    /\ delays = <<>>
    /\ stimuli = 0
    /\ connects = 0
    /\ gaveUp = FALSE
    /\ last = [op |-> "init", id |-> NoId, method |-> FALSE, ret |-> "none",
               sends |-> 0, rejected |-> 0, docRejected |-> 0]

\* the bounds of one specification; anyFrame: the server may send a response
\* with any id on any socket, otherwise only to requests written on that socket
Limits(sockets, ids, outside, calls, version, anyFrame) ==
    [sockets |-> sockets, ids |-> ids, stimuli |-> outside, connects |-> calls,
     version |-> version, anyFrame |-> anyFrame]

\* connect(url) called from outside the class
Connect(url, L) ==
    /\ stimuli < L.stimuli
    /\ BetweenTasks
    /\ connects < L.connects
    /\ Cardinality(Created(Cur)) < L.sockets
    /\ LET st == connect([Cur EXCEPT !.gaveUp = FALSE], url)
       IN  Commit(st) /\ last' = Event("connect", NoId, FALSE, st)
    /\ stimuli' = stimuli + 1
    /\ connects' = connects + 1
    /\ UNCHANGED editorLoaded

\* setTimeout(() => this.connect(url), delay) of the close handler of socket s
ReconnectTimer(s, L) ==
    /\ reconnectTimer[s] # 0
    /\ BetweenTasks
    /\ Cardinality(Created(Cur)) < L.sockets
    /\ LET st == connect([Cur EXCEPT !.reconnectTimer[s] = 0], "good")
       IN  Commit(st) /\ last' = Event("reconnect", NoId, FALSE, st)
    /\ UNCHANGED <<editorLoaded, stimuli, connects>>

\* the open event of socket s
OnOpen(s, L) ==
    /\ readyState[s] = "CONNECTING"
    /\ BetweenTasks
    /\ messageId < L.ids
    /\ LET st == onopen([Cur EXCEPT !.readyState[s] = "OPEN"])
       IN  Commit(st) /\ last' = Event("open", st.messageId, FALSE, st)
    /\ UNCHANGED <<editorLoaded, stimuli, connects>>

\* the server starts the closing handshake: readyState becomes CLOSING in a
\* task of its own, the close event follows when the connection is gone
OnClosing(s) ==
    /\ readyState[s] = "OPEN"
    /\ BetweenTasks
    /\ LET st == [Cur EXCEPT !.readyState[s] = "CLOSING"]
       IN  Commit(st) /\ last' = Event("closing", NoId, FALSE, st)
    /\ UNCHANGED <<editorLoaded, stimuli, connects>>

\* the error event of socket s: the connection failed
OnError(s) ==
    /\ readyState[s] \in {"CONNECTING", "OPEN", "CLOSING"}
    /\ BetweenTasks
    /\ LET st == onerror([Cur EXCEPT !.readyState[s] = "FAILED"])
       IN  Commit(st) /\ last' = Event("error", NoId, FALSE, st)
    /\ UNCHANGED <<editorLoaded, stimuli, connects>>

\* the close event of socket s, on its own or right after its error event
OnClose(s) ==
    /\ \/ BetweenTasks /\ readyState[s] \in {"CONNECTING", "OPEN", "CLOSING"}
       \/ readyState[s] = "FAILED"
    /\ LET st == onclose([Cur EXCEPT !.readyState[s] = "CLOSED"], s)
       IN  Commit(st) /\ last' = Event("close", NoId, FALSE, st)
    /\ UNCHANGED <<editorLoaded, stimuli, connects>>

\* the second half of the task that fired the error event of socket s
CloseAfterError(s) == readyState[s] = "FAILED" /\ OnClose(s)

\* ws.onmessage of socket s with a frame JSON.parse accepts
onmessage(st, message) ==
    LET handled == handleMessage(st, message)
    IN  IF handled.ret = "settled"
        THEN [resume(handled, message.id, message.result) EXCEPT !.ret = "settled"]
        ELSE handled

OnMessage(s, message, L) ==
    /\ readyState[s] = "OPEN"
    /\ BetweenTasks
    /\ \/ L.anyFrame
       \/ message.id = NoId
       \/ \E k \in 1..Len(wire[s]) : wire[s][k].id = message.id
    /\ stimuli < L.stimuli
    /\ LET st == onmessage(Cur, message)
       IN  Commit(st) /\ last' = Event("message", message.id, message.method, st)
    /\ stimuli' = stimuli + 1
    /\ UNCHANGED <<editorLoaded, connects>>

\* ws.onmessage with data JSON.parse rejects: caught and logged
\* mutant: a frame that cannot be decoded ends the session
onmessageMalformedIsFatal(st) ==
    [updateConnectionStatus(st, FALSE) EXCEPT !.pendingRequests = {}, !.ret = "logged"]

onmessageMalformed(st) == [st EXCEPT !.ret = "logged"]

OnMalformed(s, L) ==
    /\ readyState[s] = "OPEN"
    /\ BetweenTasks
    /\ stimuli < L.stimuli
    /\ LET st == onmessageMalformed(Cur)
       IN  Commit(st) /\ last' = Event("malformed", NoId, FALSE, st)
    /\ stimuli' = stimuli + 1
    /\ UNCHANGED <<editorLoaded, connects>>

\* ws.onmessage with a textDocument/publishDiagnostics notification
OnDiagnostics(s, diagnostics, enabled, L) ==
    /\ readyState[s] = "OPEN"
    /\ BetweenTasks
    /\ stimuli < L.stimuli
    /\ LET frame == [id |-> NoId, error |-> FALSE, method |-> TRUE, result |-> NullResult]
           st == handleDiagnostics(handleMessage(Cur, frame), diagnostics, enabled)
       IN  Commit(st) /\ last' = Event("diagnostics", NoId, TRUE, st)
    /\ stimuli' = stimuli + 1
    /\ UNCHANGED <<editorLoaded, connects>>

\* the 30 s timer of request id fires
RequestTimeout(id) ==
    /\ id \in requestTimer
    /\ BetweenTasks
    /\ LET st == requestTimeout(Cur, id)
       IN  Commit(st) /\ last' = Event("timeout", id, FALSE, st)
    /\ UNCHANGED <<editorLoaded, stimuli, connects>>

GetCompletions(L) ==
    /\ stimuli < L.stimuli
    /\ BetweenTasks
    /\ messageId < L.ids
    /\ LET st == getCompletions(Cur)
       IN  Commit(st) /\ last' = Event("getCompletions", NoId, FALSE, st)
    /\ stimuli' = stimuli + 1
    /\ UNCHANGED <<editorLoaded, connects>>

GetHover(L) ==
    /\ stimuli < L.stimuli
    /\ BetweenTasks
    /\ messageId < L.ids
    /\ LET st == getHover(Cur)
       IN  Commit(st) /\ last' = Event("getHover", NoId, FALSE, st)
    /\ stimuli' = stimuli + 1
    /\ UNCHANGED <<editorLoaded, connects>>

\* the editor reports a content change to every registered listener
EditorChange(L) ==
    /\ Len(listeners) > 0
    /\ BetweenTasks
    /\ \A k \in 1..Len(listeners) : listeners[k] < L.version
    /\ LET st == fireListeners(Cur, 1)
       IN  Commit(st) /\ last' = Event("change", NoId, FALSE, [st EXCEPT !.ret = "none"])
    /\ UNCHANGED <<editorLoaded, stimuli, connects>>

\* the connection's life: connect calls, socket events and timers
LifecycleOf(L) ==
    \/ \E url \in {"good", "bad"} : Connect(url, L)
    \/ \E s \in Sockets : ReconnectTimer(s, L)
    \/ \E s \in Sockets : OnOpen(s, L)
    \/ \E s \in Sockets : OnError(s)
    \/ \E s \in Sockets : OnClose(s)
    \/ \E id \in Ids : RequestTimeout(id)

\* frames from the server and calls from the editor
TrafficOf(L) ==
    \/ \E s \in Sockets, message \in InboundFrames : OnMessage(s, message, L)
    \/ \E s \in Sockets : OnMalformed(s, L)
    \/ GetCompletions(L)
    \/ GetHover(L)
    \/ EditorChange(L)

NextOf(L) == LifecycleOf(L) \/ TrafficOf(L)

Next == NextOf(Limits(MaxSockets, MaxMsgId, MaxStimuli, MaxConnects, MaxVersion, TRUE))
Spec == Init /\ [][Next]_vars

\* the event loop runs every timer that is due and finishes the task it is in
LiveSpec ==
    /\ Spec
    /\ \A id \in Ids : WF_vars(RequestTimeout(id))
    /\ \A s \in Sockets : WF_vars(CloseAfterError(s))

ReconnectNext ==
    \/ NextOf(Limits(ReconnectSockets, ReconnectMsgId, ReconnectStimuli, ReconnectConnects,
                     ReconnectVersion, FALSE))
    \/ \E s \in Sockets : OnClosing(s)
ReconnectSpec == Init /\ [][ReconnectNext]_vars

BackoffNext ==
    LifecycleOf(Limits(BackoffSockets, BackoffMsgId, BackoffConnects, BackoffConnects, 0, TRUE))
BackoffSpec == Init /\ [][BackoffNext]_vars

DiagnosticsNext ==
    LET L == Limits(1, 1, DiagnosticsStimuli, 1, 0, TRUE)
    IN  \/ Connect("good", L)
        \/ OnOpen(1, L)
        \/ \E d \in DiagnosticLists, enabled \in BOOLEAN : OnDiagnostics(1, d, enabled, L)
DiagnosticsSpec == Init /\ [][DiagnosticsNext]_vars

DecodeNext ==
    LET L == Limits(1, DecodeMsgId, DecodeStimuli, 1, 0, TRUE)
    IN  \/ Connect("good", L)
        \/ OnOpen(1, L)
        \/ \E message \in InboundFrames : OnMessage(1, message, L)
        \/ OnMalformed(1, L)
        \/ GetCompletions(L)
        \/ \E id \in Ids : RequestTimeout(id)
DecodeSpec == Init /\ [][DecodeNext]_vars

RivalNext == LifecycleOf(Limits(RivalSockets, RivalMsgId, RivalConnects, RivalConnects, 0, TRUE))
RivalSpec == Init /\ [][RivalNext]_vars

(* ------------------------------- claims -------------------------------- *)
Live == {s \in Sockets : readyState[s] \in {"CONNECTING", "OPEN"}}

\* ids of the request frames written to some socket
Written == {i \in Ids : \E s \in Sockets : \E k \in 1..Len(wire[s]) : wire[s][k].id = i}

FeatureMethods == {"textDocument/didOpen", "textDocument/didChange",
                   "textDocument/completion", "textDocument/hover"}

\* the initialized notification was written on socket s
HandshakeDone(s) == \E k \in 1..Len(wire[s]) : wire[s][k].method = "initialized"

\* the handshake on the current connection has completed
Ready == ws # NoSocket /\ readyState[ws] = "OPEN" /\ HandshakeDone(ws)

\* C1: every request written while the socket is open is settled exactly once:
\* resolve/reject is never invoked twice for an id, a step settles only the id
\* carried by the frame received or by the timer fired, the settled promise is
\* fulfilled, rejected with the error, or rejected with the timeout, and (the
\* timers being run) every written request is eventually settled.
SettledExactlyOnce ==
    /\ [](\A i \in Ids : /\ settles[i] <= 1
                         /\ settles[i] = 1 => promise[i] \in {"resolved", "error", "timeout"}
                         /\ promise[i] \in {"resolved", "error", "timeout"} => settles[i] = 1)
    /\ [][\A i \in Ids : settles'[i] # settles[i] =>
            /\ last'.id = i
            /\ \/ last'.op = "message" /\ promise'[i] \in {"resolved", "error"}
               \/ last'.op = "timeout" /\ promise'[i] = "timeout"]_vars
    /\ \A i \in Ids : (i \in Written) ~> (settles[i] = 1)

\* a later request is answered while an earlier one is still pending
SettledOutOfOrder ==
    \E i, j \in Ids : /\ i < j
                      /\ promise[i] = "pending"
                      /\ promise[j] \in {"resolved", "error"}
                      /\ settles[j] = 1

\* C2: while the handshake on the current connection has not completed,
\* getCompletions and getHover return the empty result, write no frame and add
\* no pending entry.
NotReadyFeatureIsEmpty ==
    [][(last'.op \in {"getCompletions", "getHover"} /\ ~Ready) =>
         /\ last'.ret \in {"empty", "caught"}
         /\ wire' = wire
         /\ pendingRequests' = pendingRequests]_vars

\* C3: at most one socket created by the client is connecting or open.
AtMostOneLiveSocket == Cardinality(Live) <= 1

\* C4: the ids the client allocates are strictly increasing, no request frame
\* on any socket repeats an id, and the counter never decreases.
IdsStrictlyIncreasing ==
    /\ \A i, j \in 1..Len(issued) : i < j => issued[i] < issued[j]
    /\ \A s, t \in Sockets : \A k \in 1..Len(wire[s]) : \A m \in 1..Len(wire[t]) :
         (wire[s][k].id # NoId /\ wire[s][k].id = wire[t][m].id) => (s = t /\ k = m)
    /\ \A s \in Sockets : \A k \in 1..Len(wire[s]) :
         wire[s][k].id # NoId => \E i \in 1..Len(issued) : issued[i] = wire[s][k].id
    /\ Len(issued) > 0 => messageId = issued[Len(issued)]

\* ids were allocated on two connections
IdsAcrossReconnect ==
    /\ Len(issued) >= 2
    /\ \E s, t \in Sockets : s # t /\ Len(wire[s]) > 0 /\ Len(wire[t]) > 0

\* C5: on every connection the first frame is the initialize request, the
\* initialized notification follows the response to that connection's
\* initialize request, and no feature frame precedes the initialized
\* notification.
HandshakeOrdered ==
    \A s \in Sockets : \A k \in 1..Len(wire[s]) :
        /\ k = 1 => wire[s][k].method = "initialize"
        /\ wire[s][k].method = "initialized" =>
             \E j \in 1..(k - 1) : /\ wire[s][j].method = "initialize"
                                   /\ promise[wire[s][j].id] = "resolved"
        /\ wire[s][k].method \in FeatureMethods =>
             \E j \in 1..(k - 1) : wire[s][j].method = "initialized"

\* C6: a sendMessage call made while this.ws is missing or not open is
\* rejected, writes nothing, and registers no entry and no timer.
NotOpenSendRejected ==
    [][(last'.sends > 0 /\ ~(ws' # NoSocket /\ readyState'[ws'] = "OPEN")) =>
         /\ last'.rejected = last'.sends
         /\ wire' = wire
         /\ pendingRequests' \subseteq pendingRequests
         /\ requestTimer' \subseteq requestTimer
         /\ \A i \in Ids : promise'[i] # promise[i] =>
              (promise'[i] = "notready" \/ i = last'.id)]_vars

\* sendMessage was called while the socket the client writes to was not open
SendWhileNotOpen ==
    /\ last.rejected > 0
    /\ ~(ws # NoSocket /\ readyState[ws] = "OPEN")
    /\ \E i \in Ids : promise[i] = "notready"

\* the delays the specification lists for base 1000 ms and ceiling 5
ExpectedDelays == <<2000, 4000, 8000, 16000, 30000>>

\* C7: with no open in between, the delays scheduled by consecutive closes are
\* 2000, 4000, 8000, 16000, 30000, one per attempt counted, and the close
\* after the fifth schedules nothing.
BackoffDelaySequence ==
    /\ Len(delays) <= Len(ExpectedDelays)
    /\ \A k \in 1..Len(delays) : delays[k] = ExpectedDelays[k]
    /\ Len(delays) = reconnectAttempts
    /\ \A s \in Sockets : reconnectTimer[s] # 0 =>
         \E k \in 1..Len(ExpectedDelays) : ExpectedDelays[k] = reconnectTimer[s]
    /\ (last.op = "close" /\ last.ret = "gaveup") =>
         Len(delays) = Len(ExpectedDelays)
    /\ (last.op = "close" /\ last.ret = "scheduled") => Len(delays) > 0

\* five reconnects were scheduled and the sixth close scheduled none
AttemptsExhausted ==
    /\ last.op = "close"
    /\ last.ret = "gaveup"
    /\ delays = ExpectedDelays

\* C8: after a close that finds the counter at the ceiling, and until connect is
\* called from outside, no reconnect timer is pending, no socket is created and
\* isConnected stays false.
GaveUpIsTerminal ==
    [][(gaveUp /\ last'.op # "connect") =>
         /\ \A s \in Sockets : reconnectTimer[s] = 0
         /\ \A s \in Sockets : readyState[s] = "NONE" => readyState'[s] = "NONE"
         /\ ~isConnected /\ ~isConnected']_vars

\* C9: pendingRequests holds exactly the ids written and not yet settled, each
\* with its timer still to fire, and (the timers being run) every entry is
\* eventually removed.
PendingIsInFlight ==
    /\ [](pendingRequests = {i \in Written : promise[i] = "pending"})
    /\ [](pendingRequests \subseteq requestTimer)
    /\ \A i \in Ids : (i \in pendingRequests) ~> (i \notin pendingRequests)

\* a request nobody answered was removed by its timer and the table is empty
TimedOutAndEmpty ==
    /\ pendingRequests = {}
    /\ \E i \in Ids : promise[i] = "timeout" /\ last.op = "timeout" /\ last.id = i

\* C10: a response whose id is not in pendingRequests is dropped: no entry is
\* removed and no promise is settled.
UnknownResponseDropped ==
    [][(last'.op = "message" /\ ~last'.method /\ last'.id \notin pendingRequests) =>
         /\ last'.ret = "ignored"
         /\ pendingRequests' = pendingRequests
         /\ promise' = promise
         /\ settles' = settles
         /\ last'.sends = 0]_vars

\* a response arrived after its request had timed out, others still pending
LateResponseDropped ==
    /\ last.op = "message"
    /\ ~last.method
    /\ last.ret = "ignored"
    /\ last.id # NoId
    /\ promise[last.id] = "timeout"

\* C11: reconnectAttempts changes only in the open handler, which sets it to 0,
\* and in the close handler, which adds one; every other task leaves it alone.
AttemptsResetOnlyOnOpen ==
    [][reconnectAttempts' # reconnectAttempts =>
         \/ last'.op = "open" /\ reconnectAttempts' = 0
         \/ last'.op = "close" /\ reconnectAttempts' = reconnectAttempts + 1]_vars

\* the open of a socket the reconnect timer created has reset the counter
AttemptsResetByOpen ==
    /\ last.op = "open"
    /\ reconnectAttempts = 0
    /\ connects = 1
    /\ ws = 2
    /\ readyState[1] = "CLOSED"

\* C12: no openDocument or changeDocument call ends in a rejected promise, and
\* a content change reported while the transport is not open writes no frame.
DocumentCallsNeverFail ==
    [][/\ last'.docRejected = 0
       /\ (last'.op = "change" /\ ~(ws # NoSocket /\ readyState[ws] = "OPEN")) =>
            wire' = wire]_vars

\* C13: every marker handleDiagnostics hands to the editor has the line and
\* column numbers of its diagnostic plus one, and severity Error, Warning, Info
\* for 1, 2, 3 and Hint for any other value; range (2,4)-(2,9) with severity 1
\* gives startLineNumber 3, endColumn 10, Error.
MarkersFromDiagnostics ==
    /\ Len(markers) = Len(published)
    /\ \A k \in 1..Len(published) :
         LET diag == published[k]
             marker == markers[k]
         IN  /\ marker.startLineNumber = diag.start.line + 1
             /\ marker.endLineNumber = diag.end.line + 1
             /\ marker.startColumn = diag.start.character + 1
             /\ marker.endColumn = diag.end.character + 1
             /\ diag.severity = 1 => marker.severity = "Error"
             /\ diag.severity = 2 => marker.severity = "Warning"
             /\ diag.severity = 3 => marker.severity = "Info"
             /\ diag.severity \notin {1, 2, 3} => marker.severity = "Hint"
             /\ diag = SampleDiagnostic =>
                  /\ marker.startLineNumber = 3
                  /\ marker.endColumn = 10
                  /\ marker.severity = "Error"

\* a notification with two diagnostics, the sample one and one of another
\* severity, was turned into two markers
SampleMarked ==
    /\ last.op = "diagnostics"
    /\ last.ret = "markers"
    /\ Len(published) = 2
    /\ published[2] = SampleDiagnostic
    /\ published[1].severity = 0
    /\ Len(markers) = 2

\* C14: the close and error handlers leave pendingRequests, the promises and
\* the request timers as they are; an entry leaves the table only through a
\* response with its id or through its own timer, which stays armed while the
\* entry is there.
DropLeavesRequestsPending ==
    [][/\ last'.op \in {"close", "error"} =>
            /\ pendingRequests' = pendingRequests
            /\ promise' = promise
            /\ settles' = settles
            /\ requestTimer' = requestTimer
       /\ \A i \in pendingRequests \ pendingRequests' :
            last'.id = i /\ last'.op \in {"message", "timeout"}
       /\ pendingRequests' \subseteq requestTimer']_vars

\* a request written on a socket that has closed was rejected by its timer
\* after the reconnect had succeeded
TimedOutAfterReconnect ==
    /\ last.op = "timeout"
    /\ last.ret = "timeout"
    /\ ws # NoSocket
    /\ readyState[ws] = "OPEN"
    /\ \E s \in Sockets :
         /\ s # ws
         /\ readyState[s] = "CLOSED"
         /\ \E k \in 1..Len(wire[s]) : wire[s][k].id = last.id

HandshakeFailureOnlyLogged ==
    [][/\ (\/ last'.op = "open" /\ last'.ret = "caught"
           \/ \E i \in Ids : /\ awaiting[i] = "initialize"
                             /\ promise[i] = "pending"
                             /\ promise'[i] \in {"error", "timeout"}) =>
            /\ serverCapabilities' = serverCapabilities
            /\ lspReady' = lspReady
            /\ listeners' = listeners
            /\ wire' = wire
       /\ \A s \in Sockets :
            (\E k \in (Len(wire[s]) + 1)..Len(wire'[s]) : wire'[s][k].method = "initialize") =>
                last'.op = "open"]_vars

\* the server answered the initialize request with an error
HandshakeRefused ==
    /\ last.op = "message"
    /\ last.id # NoId
    /\ awaiting[last.id] = "initialize"
    /\ promise[last.id] = "error"
    /\ serverCapabilities = NoCaps
    /\ ~lspReady

\* C17: a frame JSON.parse rejects is logged and dropped: the task changes
\* neither pendingRequests, the promises, serverCapabilities, isConnected,
\* reconnectAttempts nor the socket, and a response that arrives next on the
\* connection settles its request as usual.
MalformedFrameDropped ==
    [][/\ last'.op = "malformed" =>
            /\ last'.ret = "logged"
            /\ pendingRequests' = pendingRequests
            /\ promise' = promise
            /\ settles' = settles
            /\ serverCapabilities' = serverCapabilities
            /\ isConnected' = isConnected
            /\ reconnectAttempts' = reconnectAttempts
            /\ readyState' = readyState
            /\ wire' = wire
       /\ (last.op = "malformed" /\ last'.op = "message" /\ last'.id \in pendingRequests) =>
            /\ last'.ret = "settled"
            /\ last'.id \notin pendingRequests'
            /\ promise'[last'.id] \in {"resolved", "error"}]_vars

\* an undecodable frame arrived while the initialize request was pending on
\* the open socket
MalformedWhilePending ==
    /\ last.op = "malformed"
    /\ isConnected
    /\ ws # NoSocket
    /\ readyState[ws] = "OPEN"
    /\ pendingRequests # {}

\* C18: an inbound frame settles a pending request only if it has no method
\* member and carries the request's id; a frame with a method is dispatched as
\* a notification and removes or settles no entry, whatever its id.
MethodFramesNeverSettle ==
    [][last'.op = "message" =>
         /\ \A i \in Ids : settles'[i] # settles[i] => (~last'.method /\ last'.id = i)
         /\ last'.method =>
              /\ last'.ret = "notification"
              /\ pendingRequests' = pendingRequests
              /\ promise' = promise]_vars

\* C19: isConnected is true exactly when the socket in this.ws has had its open
\* event and no close or error event since, and then a send on this.ws is
\* accepted.
FlagAgreesWithTransport ==
    /\ isConnected <=> (ws # NoSocket /\ readyState[ws] \in {"OPEN", "CLOSING"})
    /\ isConnected => (ws # NoSocket /\ readyState[ws] = "OPEN")

\* C20: a content change writes at most one textDocument/didChange frame, and
\* the versions of the didChange frames, in the order written, strictly
\* increase.
OneChangeFramePerEdit ==
    /\ [][last'.op = "change" =>
            \A s \in Sockets :
                Cardinality({k \in (Len(wire[s]) + 1)..Len(wire'[s]) :
                                wire'[s][k].method = "textDocument/didChange"}) <= 1]_vars
    /\ [](\A s, t \in Sockets : \A k \in 1..Len(wire[s]) : \A m \in 1..Len(wire[t]) :
            (/\ wire[s][k].method = "textDocument/didChange"
             /\ wire[t][m].method = "textDocument/didChange"
             /\ (s < t \/ (s = t /\ k < m))) =>
                wire[s][k].version < wire[t][m].version)

====
